---------------------------- MODULE Spec2Model ----------------------------
(***************************************************************************)
(* Model of backend/app.py: the scan-job lifecycle (scan_folder,           *)
(* process_scan), the recursive paginated walk (list_files), the CSV       *)
(* export (export_to_csv), the polling handlers (get_scan_status,          *)
(* download_results) and the OAuth callback (oauth2callback).              *)
(*                                                                         *)
(* Threads: the async handlers run one at a time on the event loop;        *)
(* process_scan is a plain def, so every background task runs on a worker  *)
(* thread and interleaves with the handlers and with the other tasks.      *)
(* Text is modelled as a sequence of tokens, "" being << >>.               *)
(***************************************************************************)
EXTENDS Integers, Sequences, FiniteSets, TLC

\* Number of job ids uuid4 can hand out in one run of the model.
MaxJobs == 2

Jobs == 1..MaxJobs

VARIABLES
    scan_jobs,          \* app.py:44   job_id -> job dict
    credentials_store,  \* app.py:43   dict with at most the key "current"
    fs,                 \* working directory: file name -> rows written so far
    configured,         \* GOOGLE_CLIENT_ID and GOOGLE_CLIENT_SECRET are set
    pc,                 \* per job: position of its background task
    folder,             \* per job: the folder_id argument of process_scan
    stack,              \* per job: the call stack of list_files
    files,              \* per job: the local `files` of process_scan
    requests,           \* per job: the listing requests issued so far
    held,               \* per job: every (status, message, progress) its dict held
    http_pc,            \* event loop: position inside the running handler
    http_job,           \* event loop: job_id path parameter of the running handler
    response            \* event loop: response under construction / last sent

jobVars == <<pc, folder, stack, files, requests, held>>
httpVars == <<http_pc, http_job, response>>
vars == <<scan_jobs, credentials_store, fs, configured, pc, folder, stack, files,
          requests, held, http_pc, http_job, response>>

-----------------------------------------------------------------------------
(* Python helpers *)

\* dict.update(u): keys of u are overwritten or added, the others kept.
DictUpdate(d, u) ==
    [k \in DOMAIN d \cup DOMAIN u |-> IF k \in DOMAIN u THEN u[k] ELSE d[k]]

\* d[k] = v
DictSet(d, k, v) ==
    [x \in DOMAIN d \cup {k} |-> IF x = k THEN v ELSE d[x]]

\* d.get(k, default)
DictGet(d, k, default) == IF k \in DOMAIN d THEN d[k] ELSE default

\* None and the empty string: both falsy.
None == << >>

-----------------------------------------------------------------------------
(* The remote Drive: a finite acyclic hierarchy served in pages. *)

FOLDER_MIME == "application/vnd.google-apps.folder"

DriveFile(id, name) == [id |-> id, name |-> <<name>>, mimeType |-> "text/plain", size |-> "12"]
DriveFolder(id, name) == [id |-> id, name |-> <<name>>, mimeType |-> FOLDER_MIME]

\* Children of each folder, page by page, as files().list returns them.
\* R has three pages (the first holds a sub-folder, the second is empty),
\* A / B nests two levels deep.  S is two files followed by a sub-folder
\* with one file.  P has one file on each of three pages.  Q has a
\* sub-folder in the middle of its first page and a second page; U, the
\* sub-folder, has two pages and an empty sub-folder V.
DrivePages ==
    [R |-> << <<DriveFile("f1", "one"), DriveFolder("A", "a")>>,
              << >>,
              <<DriveFile("f2", "two")>> >>,
     A |-> << <<DriveFolder("B", "b")>> >>,
     B |-> << <<DriveFile("f3", "three")>> >>,
     S |-> << <<DriveFile("s1", "x"), DriveFile("s2", "y"), DriveFolder("T", "sub")>> >>,
     T |-> << <<DriveFile("t1", "z")>> >>,
     P |-> << <<DriveFile("p1", "p")>>, <<DriveFile("p2", "q")>>, <<DriveFile("p3", "r")>> >>,
     Q |-> << <<DriveFile("q1", "k"), DriveFolder("U", "u"), DriveFile("q2", "l")>>,
              <<DriveFile("q3", "m")>> >>,
     U |-> << <<DriveFile("u1", "n")>>, <<DriveFolder("V", "v")>> >>,
     V |-> << << >> >>]

FolderIds == DOMAIN DrivePages

\* The folder_id values a client posts to /api/scan.
RootIds == {"R", "B"}

PageToken(i) == <<"page", i>>

\* service.files().list(q, pageToken).execute() when it answers.
DriveList(folder_id, page_token) ==
    LET pages == DrivePages[folder_id]
        i == IF page_token = None THEN 1 ELSE page_token[2]
    IN  IF i < Len(pages)
        THEN [files |-> pages[i], nextPageToken |-> PageToken(i + 1)]
        ELSE [files |-> pages[i]]

-----------------------------------------------------------------------------
(* list_files *)

get_drive_link(file) ==
    <<"https://drive.google.com/file/d/", file.id, "/view?usp=drive_link">>

\* The dict built at lines 134-140.
file_info(file, current_path) ==
    [name |-> file.name,
     entire_folder_path |-> current_path,
     file_type |-> file.mimeType,
     link |-> get_drive_link(file),
     size |-> DictGet(file, "size", "N/A")]

\* Variant of new_path that always puts the separator.
new_path_LeadingSeparator(current_path, name) == current_path \o <<"/">> \o name

\* Line 144.
new_path(current_path, name) ==
    IF current_path = << >> THEN name ELSE current_path \o <<"/">> \o name

\* A call of list_files as it enters its while loop (lines 119-121).
NewFrame(folder_id, current_path) ==
    [folder_id |-> folder_id, current_path |-> current_path,
     page_token |-> None, todo |-> << >>, next |-> None, results |-> << >>]

\* The local computation of list_files between two listing requests, on the
\* call stack st whose top frame has just received a page (todo, next):
\* the for loop (133-145) up to the next recursive call, the token test
\* (147-149) and the returns (151, 145).  The result is the stack at the
\* next request, or [done, results] when the outermost call has returned.
RECURSIVE RunLocal(_)
\* Variant of RunFrom that puts the entries of a sub-folder before what the
\* parent has collected.
RunFrom_ChildrenFirst(st) ==
    LET n == Len(st)
        top == st[n]
    IN  IF top.todo # << >>
        THEN LET file == Head(top.todo)
                 top1 == [top EXCEPT !.todo = Tail(@),
                                     !.results = Append(@, file_info(file, top.current_path))]
                 st1 == [st EXCEPT ![n] = top1]
             IN  IF file.mimeType = FOLDER_MIME
                 THEN [done |-> FALSE,
                       stack |-> Append(st1, NewFrame(file.id, new_path(top.current_path, file.name))),
                       results |-> << >>]
                 ELSE RunLocal(st1)
        ELSE IF top.next # None
        THEN [done |-> FALSE,
              stack |-> [st EXCEPT ![n] = [top EXCEPT !.page_token = top.next]],
              results |-> << >>]
        ELSE IF n = 1
        THEN [done |-> TRUE, stack |-> << >>, results |-> top.results]
        ELSE RunLocal([i \in 1..(n - 1) |->
                         IF i = n - 1
                         THEN [st[i] EXCEPT !.results = top.results \o @]
                         ELSE st[i]])

RunFrom(st) ==
    LET n == Len(st)
        top == st[n]
    IN  IF top.todo # << >>
        THEN LET file == Head(top.todo)
                 top1 == [top EXCEPT !.todo = Tail(@),
                                     !.results = Append(@, file_info(file, top.current_path))]
                 st1 == [st EXCEPT ![n] = top1]
             IN  IF file.mimeType = FOLDER_MIME
                 THEN [done |-> FALSE,
                       stack |-> Append(st1, NewFrame(file.id, new_path(top.current_path, file.name))),
                       results |-> << >>]
                 ELSE RunLocal(st1)
        ELSE IF top.next # None
        THEN [done |-> FALSE,
              stack |-> [st EXCEPT ![n] = [top EXCEPT !.page_token = top.next]],
              results |-> << >>]
        ELSE IF n = 1
        THEN [done |-> TRUE, stack |-> << >>, results |-> top.results]
        ELSE RunLocal([i \in 1..(n - 1) |->
                         IF i = n - 1
                         THEN [st[i] EXCEPT !.results = @ \o top.results]
                         ELSE st[i]])

\* RunFrom on the value of st (the stack is evaluated once per step).
RunLocal(st) == CHOOSE r \in {RunFrom(s) : s \in {st}} : TRUE

\* Variant of Receive that takes the first page for the whole folder.
Receive_IgnoresToken(st, resp) ==
    [st EXCEPT ![Len(st)] = [@ EXCEPT !.todo = resp.files, !.next = None]]

\* The top frame after the response of its listing request (131, 147).
Receive(st, resp) ==
    [st EXCEPT ![Len(st)] = [@ EXCEPT !.todo = resp.files,
                                      !.next = DictGet(resp, "nextPageToken", None)]]

-----------------------------------------------------------------------------
(* export_to_csv *)

fieldnames == <<"name", "link", "size", "file_type", "entire_folder_path">>

\* Variant of csv_file with one result file for all jobs.
csv_file_Shared(job_id) == <<"scan_results_", 0, ".csv">>

\* Line 323.
csv_file(job_id) == <<"scan_results_", job_id, ".csv">>

\* csv.DictWriter.writerow: the values of the dict in fieldnames order.
writerow(file) == [i \in 1..Len(fieldnames) |-> file[fieldnames[i]]]

\* The data rows of a result file: everything after the header.
DataRows(content) == Tail(content)

-----------------------------------------------------------------------------
(* process_scan *)

Snapshot(job) == <<job["status"], job["message"], DictGet(job, "progress", 0)>>

\* A write to the dict of job_id; held records what the dict then holds.
WriteJob(job_id, d) ==
    /\ scan_jobs' = DictSet(scan_jobs, job_id, d)
    /\ held' = [held EXCEPT ![job_id] = @ \cup {Snapshot(d)}]

AUTH_URL == <<"https://accounts.google.com/o/oauth2/auth", "?access_type=offline">>

\* Variant of Except without the except clause: the exception ends the task
\* and the job dict is left as it was.
Except_Unhandled(job_id, e) ==
    /\ pc' = [pc EXCEPT ![job_id] = "returned"]
    /\ UNCHANGED <<scan_jobs, held>>

\* Variant of Except that also sets progress back to 0.
Except_ResetsProgress(job_id, e) ==
    /\ WriteJob(job_id, DictUpdate(scan_jobs[job_id],
                    [status |-> "failed", message |-> <<"Error: ", e>>, progress |-> 0]))
    /\ pc' = [pc EXCEPT ![job_id] = "returned"]

\* The except clause (334-339), entered with exception e; the task ends.
Except(job_id, e) ==
    /\ WriteJob(job_id, DictUpdate(scan_jobs[job_id],
                    [status |-> "failed", message |-> <<"Error: ", e>>]))
    /\ pc' = [pc EXCEPT ![job_id] = "returned"]

\* Lines 289-293: the task starts and creates the dict of its job.
ProcessStart(job_id) ==
    /\ pc[job_id] = "scheduled"
    /\ WriteJob(job_id, [status |-> "processing", message |-> <<"Starting scan">>,
                         progress |-> 0])
    /\ pc' = [pc EXCEPT ![job_id] = "credentials"]
    /\ UNCHANGED <<credentials_store, fs, configured, folder, stack, files, requests>>
    /\ UNCHANGED httpVars

\* Variant of ProcessAuthRequired without the return at line 309: the task
\* runs on into the scan.
ProcessAuthRequired_NoReturn(job_id) ==
    /\ pc[job_id] = "credentials"
    /\ "current" \notin DOMAIN credentials_store
    /\ IF configured
       THEN /\ WriteJob(job_id, DictUpdate(scan_jobs[job_id],
                            [status |-> "auth_required",
                             message |-> <<"Authentication required">>,
                             authorization_url |-> AUTH_URL]))
            /\ pc' = [pc EXCEPT ![job_id] = "scan_message"]
       ELSE Except(job_id, "Google credentials not configured")
    /\ UNCHANGED <<credentials_store, fs, configured, folder, stack, files, requests>>
    /\ UNCHANGED httpVars

\* Lines 297-309: no stored credential.  get_oauth_flow raises when the
\* client id or secret is not configured; otherwise the job gets the
\* authorization URL and the task returns.
ProcessAuthRequired(job_id) ==
    /\ pc[job_id] = "credentials"
    /\ "current" \notin DOMAIN credentials_store
    /\ IF configured
       THEN /\ WriteJob(job_id, DictUpdate(scan_jobs[job_id],
                            [status |-> "auth_required",
                             message |-> <<"Authentication required">>,
                             authorization_url |-> AUTH_URL]))
            /\ pc' = [pc EXCEPT ![job_id] = "returned"]
       ELSE Except(job_id, "Google credentials not configured")
    /\ UNCHANGED <<credentials_store, fs, configured, folder, stack, files, requests>>
    /\ UNCHANGED httpVars

\* Variant of ProcessBuildService that drops a credential it cannot use.
ProcessBuildService_DropsCredential(job_id) ==
    /\ pc[job_id] = "credentials"
    /\ "current" \in DOMAIN credentials_store
    /\ \/ /\ pc' = [pc EXCEPT ![job_id] = "scan_message"]
          /\ UNCHANGED <<scan_jobs, held, credentials_store>>
       \/ /\ Except(job_id, "invalid credentials")
          /\ credentials_store' = << >>
    /\ UNCHANGED <<fs, configured, folder, stack, files, requests>>
    /\ UNCHANGED httpVars

\* Lines 312-313: a credential is stored; building the service from it
\* succeeds or raises (stored info unusable, discovery failure).
ProcessBuildService(job_id) ==
    /\ pc[job_id] = "credentials"
    /\ "current" \in DOMAIN credentials_store
    /\ \/ /\ pc' = [pc EXCEPT ![job_id] = "scan_message"]
          /\ UNCHANGED <<scan_jobs, held>>
       \/ Except(job_id, "invalid credentials")
    /\ UNCHANGED <<credentials_store, fs, configured, folder, stack, files, requests>>
    /\ UNCHANGED httpVars

\* Line 316.
ProcessScanMessage(job_id) ==
    /\ pc[job_id] = "scan_message"
    /\ WriteJob(job_id, DictSet(scan_jobs[job_id], "message", <<"Scanning Google Drive">>))
    /\ pc' = [pc EXCEPT ![job_id] = "scan_progress"]
    /\ UNCHANGED <<credentials_store, fs, configured, folder, stack, files, requests>>
    /\ UNCHANGED httpVars

\* Line 317, and the call of list_files at 318 up to its first request.
ProcessScanProgress(job_id) ==
    /\ pc[job_id] = "scan_progress"
    /\ WriteJob(job_id, DictSet(scan_jobs[job_id], "progress", 10))
    /\ stack' = [stack EXCEPT ![job_id] = <<NewFrame(folder[job_id], << >>)>>]
    /\ pc' = [pc EXCEPT ![job_id] = "list_files"]
    /\ UNCHANGED <<credentials_store, fs, configured, folder, files, requests>>
    /\ UNCHANGED httpVars

\* Variant of ListFilesRequest that ends the walk at a failed request and
\* returns what the open calls have collected.
ListFilesRequest_ReturnsPartial(job_id) ==
    /\ pc[job_id] = "list_files"
    /\ LET st == stack[job_id]
           top == st[Len(st)]
       IN  /\ requests' = [requests EXCEPT ![job_id] =
                              Append(@, <<top.folder_id, top.page_token>>)]
           /\ \/ /\ \E r \in {RunLocal(Receive(st, DriveList(top.folder_id, top.page_token)))} :
                        /\ stack' = [stack EXCEPT ![job_id] = r.stack]
                        /\ files' = [files EXCEPT ![job_id] = r.results]
                        /\ pc' = [pc EXCEPT ![job_id] =
                                     IF r.done THEN "export_message" ELSE "list_files"]
                 /\ UNCHANGED <<scan_jobs, held>>
              \/ /\ stack' = [stack EXCEPT ![job_id] = << >>]
                 /\ files' = [files EXCEPT ![job_id] = st[1].results]
                 /\ pc' = [pc EXCEPT ![job_id] = "export_message"]
                 /\ UNCHANGED <<scan_jobs, held>>
    /\ UNCHANGED <<credentials_store, fs, configured, folder>>
    /\ UNCHANGED httpVars

\* Lines 124-129: the innermost call of list_files issues its next listing
\* request.  The request answers with a page, and list_files runs on to its
\* next request or returns to process_scan (318); or the request raises,
\* which unwinds every frame into the except clause.
ListFilesRequest(job_id) ==
    /\ pc[job_id] = "list_files"
    /\ LET st == stack[job_id]
           top == st[Len(st)]
       IN  /\ requests' = [requests EXCEPT ![job_id] =
                              Append(@, <<top.folder_id, top.page_token>>)]
           /\ \/ /\ \E r \in {RunLocal(Receive(st, DriveList(top.folder_id, top.page_token)))} :
                        /\ stack' = [stack EXCEPT ![job_id] = r.stack]
                        /\ files' = [files EXCEPT ![job_id] = r.results]
                        /\ pc' = [pc EXCEPT ![job_id] =
                                     IF r.done THEN "export_message" ELSE "list_files"]
                 /\ UNCHANGED <<scan_jobs, held>>
              \/ /\ Except(job_id, "listing request failed")
                 /\ stack' = [stack EXCEPT ![job_id] = << >>]
                 /\ UNCHANGED files
    /\ UNCHANGED <<credentials_store, fs, configured, folder>>
    /\ UNCHANGED httpVars

\* Line 321.
ProcessExportMessage(job_id) ==
    /\ pc[job_id] = "export_message"
    /\ WriteJob(job_id, DictSet(scan_jobs[job_id], "message", <<"Exporting results to CSV">>))
    /\ pc' = [pc EXCEPT ![job_id] = "export_progress"]
    /\ UNCHANGED <<credentials_store, fs, configured, folder, stack, files, requests>>
    /\ UNCHANGED httpVars

\* Variant of ProcessExportProgress that marks the job completed before the
\* file is written.
ProcessExportProgress_CompletesEarly(job_id) ==
    /\ pc[job_id] = "export_progress"
    /\ WriteJob(job_id, DictUpdate(scan_jobs[job_id],
                    [status |-> "completed", progress |-> 90]))
    /\ pc' = [pc EXCEPT ![job_id] = "export_open"]
    /\ UNCHANGED <<credentials_store, fs, configured, folder, stack, files, requests>>
    /\ UNCHANGED httpVars

\* Line 322.
ProcessExportProgress(job_id) ==
    /\ pc[job_id] = "export_progress"
    /\ WriteJob(job_id, DictSet(scan_jobs[job_id], "progress", 90))
    /\ pc' = [pc EXCEPT ![job_id] = "export_open"]
    /\ UNCHANGED <<credentials_store, fs, configured, folder, stack, files, requests>>
    /\ UNCHANGED httpVars

\* Lines 155-158: open(output_file, 'w') creates (or truncates) the file and
\* writeheader writes the header; open raises before anything is created.
ExportOpen(job_id) ==
    /\ pc[job_id] = "export_open"
    /\ \/ /\ fs' = DictSet(fs, csv_file(job_id), <<fieldnames>>)
          /\ pc' = [pc EXCEPT ![job_id] = "export_rows"]
          /\ UNCHANGED <<scan_jobs, held>>
       \/ /\ Except(job_id, "cannot open file")
          /\ UNCHANGED fs
    /\ UNCHANGED <<credentials_store, configured, folder, stack, files, requests>>
    /\ UNCHANGED httpVars

\* Variant of ExportRow whose loop stops one row early.
ExportRow_DropsLast(job_id) ==
    /\ pc[job_id] = "export_rows"
    /\ LET name == csv_file(job_id)
           k == Len(DataRows(fs[name]))
       IN  IF k + 1 < Len(files[job_id])
           THEN \/ /\ fs' = DictSet(fs, name, Append(fs[name], writerow(files[job_id][k + 1])))
                   /\ UNCHANGED <<scan_jobs, held, pc>>
                \/ /\ Except(job_id, "write failed")
                   /\ UNCHANGED fs
           ELSE /\ pc' = [pc EXCEPT ![job_id] = "complete"]
                /\ UNCHANGED <<scan_jobs, held, fs>>
    /\ UNCHANGED <<credentials_store, configured, folder, stack, files, requests>>
    /\ UNCHANGED httpVars

\* Lines 159-160: one more row is written, or the write raises and the with
\* block closes the file as it is; after the last row the file is closed and
\* export_to_csv returns.
ExportRow(job_id) ==
    /\ pc[job_id] = "export_rows"
    /\ LET name == csv_file(job_id)
           k == Len(DataRows(fs[name]))
       IN  IF k < Len(files[job_id])
           THEN \/ /\ fs' = DictSet(fs, name, Append(fs[name], writerow(files[job_id][k + 1])))
                   /\ UNCHANGED <<scan_jobs, held, pc>>
                \/ /\ Except(job_id, "write failed")
                   /\ UNCHANGED fs
           ELSE /\ pc' = [pc EXCEPT ![job_id] = "complete"]
                /\ UNCHANGED <<scan_jobs, held, fs>>
    /\ UNCHANGED <<credentials_store, configured, folder, stack, files, requests>>
    /\ UNCHANGED httpVars

\* Variant of ProcessComplete that leaves progress as it is.
ProcessComplete_KeepsProgress(job_id) ==
    /\ pc[job_id] = "complete"
    /\ WriteJob(job_id, DictUpdate(scan_jobs[job_id],
                    [status |-> "completed",
                     message |-> <<"Found ", Len(files[job_id]), " files and folders">>,
                     file_count |-> Len(files[job_id])]))
    /\ pc' = [pc EXCEPT ![job_id] = "returned"]
    /\ UNCHANGED <<credentials_store, fs, configured, folder, stack, files, requests>>
    /\ UNCHANGED httpVars

\* Lines 327-332.
ProcessComplete(job_id) ==
    /\ pc[job_id] = "complete"
    /\ WriteJob(job_id, DictUpdate(scan_jobs[job_id],
                    [status |-> "completed",
                     message |-> <<"Found ", Len(files[job_id]), " files and folders">>,
                     progress |-> 100,
                     file_count |-> Len(files[job_id])]))
    /\ pc' = [pc EXCEPT ![job_id] = "returned"]
    /\ UNCHANGED <<credentials_store, fs, configured, folder, stack, files, requests>>
    /\ UNCHANGED httpVars

\* One step of the background task of job_id.
process_scan(job_id) ==
    \/ ProcessStart(job_id)
    \/ ProcessAuthRequired(job_id)
    \/ ProcessBuildService(job_id)
    \/ ProcessScanMessage(job_id)
    \/ ProcessScanProgress(job_id)
    \/ ListFilesRequest(job_id)
    \/ ProcessExportMessage(job_id)
    \/ ProcessExportProgress(job_id)
    \/ ExportOpen(job_id)
    \/ ExportRow(job_id)
    \/ ProcessComplete(job_id)

-----------------------------------------------------------------------------
(* The async handlers.  They run on the event loop, one at a time. *)

Reply(endpoint, code, body) == [endpoint |-> endpoint, code |-> code, body |-> body]

\* uuid4: an id no earlier call returned (ids are opaque; taken in order).
FreshId == CHOOSE j \in Jobs : pc[j] = "none" /\ \A i \in Jobs : i < j => pc[i] # "none"

\* Lines 170-176: POST /api/scan.  The task is only scheduled here; it is
\* run on a worker thread after the response has been sent.
scan_folder(folder_id) ==
    /\ http_pc = "idle"
    /\ \E j \in Jobs : pc[j] = "none"
    /\ LET job_id == FreshId
       IN  /\ pc' = [pc EXCEPT ![job_id] = "scheduled"]
           /\ folder' = [folder EXCEPT ![job_id] = folder_id]
           /\ response' = Reply("scan", 200, [job_id |-> job_id, message |-> "Scan started"])
    /\ UNCHANGED <<scan_jobs, credentials_store, fs, configured, stack, files, requests,
                   held, http_pc, http_job>>

\* Lines 184-189: GET /api/scan/{job_id}/status up to the read of status.
get_scan_status(job_id) ==
    /\ http_pc = "idle"
    /\ http_job' = job_id
    /\ IF job_id \notin DOMAIN scan_jobs
       THEN /\ response' = Reply("status", 404, [detail |-> "Job not found"])
            /\ UNCHANGED http_pc
       ELSE /\ response' = Reply("status", 200, [status |-> scan_jobs[job_id]["status"]])
            /\ http_pc' = "status_message"
    /\ UNCHANGED <<scan_jobs, credentials_store, fs, configured>>
    /\ UNCHANGED jobVars

\* Line 190.
StatusMessage ==
    /\ http_pc = "status_message"
    /\ response' = [response EXCEPT !.body =
                       DictSet(@, "message", scan_jobs[http_job]["message"])]
    /\ http_pc' = "status_progress"
    /\ UNCHANGED <<scan_jobs, credentials_store, fs, configured, http_job>>
    /\ UNCHANGED jobVars

\* Line 191.
StatusProgress ==
    /\ http_pc = "status_progress"
    /\ response' = [response EXCEPT !.body =
                       DictSet(@, "progress", DictGet(scan_jobs[http_job], "progress", 0))]
    /\ http_pc' = "status_return"
    /\ UNCHANGED <<scan_jobs, credentials_store, fs, configured, http_job>>
    /\ UNCHANGED jobVars

\* Lines 194-197.
StatusReturn ==
    /\ http_pc = "status_return"
    /\ response' = IF "authorization_url" \in DOMAIN scan_jobs[http_job]
                   THEN [response EXCEPT !.body =
                            DictSet(@, "authorization_url",
                                    scan_jobs[http_job]["authorization_url"])]
                   ELSE response
    /\ http_pc' = "idle"
    /\ UNCHANGED <<scan_jobs, credentials_store, fs, configured, http_job>>
    /\ UNCHANGED jobVars

\* Variant of download_results without the status test of lines 205-206.
download_results_NoStatusTest(job_id) ==
    /\ http_pc = "idle"
    /\ http_job' = job_id
    /\ IF job_id \notin DOMAIN scan_jobs
       THEN /\ response' = Reply("download", 404, [detail |-> "Job not found"])
            /\ UNCHANGED http_pc
       ELSE /\ response' = Reply("download", 0, << >>)
            /\ http_pc' = "download_file"
    /\ UNCHANGED <<scan_jobs, credentials_store, fs, configured>>
    /\ UNCHANGED jobVars

\* Lines 201-206: GET /api/scan/{job_id}/download up to the status test.
download_results(job_id) ==
    /\ http_pc = "idle"
    /\ http_job' = job_id
    /\ IF job_id \notin DOMAIN scan_jobs
       THEN /\ response' = Reply("download", 404, [detail |-> "Job not found"])
            /\ UNCHANGED http_pc
       ELSE IF scan_jobs[job_id]["status"] # "completed"
       THEN /\ response' = Reply("download", 400, [detail |-> "Scan not completed yet"])
            /\ UNCHANGED http_pc
       ELSE /\ response' = Reply("download", 0, << >>)
            /\ http_pc' = "download_file"
    /\ UNCHANGED <<scan_jobs, credentials_store, fs, configured>>
    /\ UNCHANGED jobVars

\* Lines 208-216.
DownloadFile ==
    /\ http_pc = "download_file"
    /\ response' = IF csv_file(http_job) \notin DOMAIN fs
                   THEN Reply("download", 404, [detail |-> "Result file not found"])
                   ELSE Reply("download", 200,
                              [path |-> csv_file(http_job), media_type |-> "text/csv",
                               filename |-> "google_drive_scan.csv"])
    /\ http_pc' = "idle"
    /\ UNCHANGED <<scan_jobs, credentials_store, fs, configured, http_job>>
    /\ UNCHANGED jobVars

\* The authorization codes a request to /oauth2callback carries: none, one
\* the token endpoint rejects, one it accepts.
Codes == {"", "rejected", "accepted"}

\* Lines 218-236.
oauth2callback(code) ==
    /\ http_pc = "idle"
    /\ IF code = ""
       THEN /\ response' = Reply("oauth2callback", 307, [url |-> "?error=no_code"])
            /\ UNCHANGED credentials_store
       ELSE IF ~configured \/ code = "rejected"
       THEN /\ response' = Reply("oauth2callback", 307, [url |-> "?error="])
            /\ UNCHANGED credentials_store
       ELSE /\ credentials_store' = DictSet(credentials_store, "current", "credentials")
            /\ response' = Reply("oauth2callback", 307, [url |-> "?status=success"])
    /\ UNCHANGED <<scan_jobs, fs, configured, http_pc, http_job>>
    /\ UNCHANGED jobVars

\* The working directory is shared with the outside: the result file of a
\* finished task is removed by something other than the program (which is
\* the case lines 209-210 answer for).
ExternalCleanup(job_id) ==
    /\ pc[job_id] = "returned"
    /\ csv_file(job_id) \in DOMAIN fs
    /\ fs' = [n \in DOMAIN fs \ {csv_file(job_id)} |-> fs[n]]
    /\ UNCHANGED <<scan_jobs, credentials_store, configured>>
    /\ UNCHANGED jobVars
    /\ UNCHANGED httpVars

-----------------------------------------------------------------------------
(* The system *)

Init ==
    /\ scan_jobs = << >>
    /\ credentials_store = << >>
    /\ fs = << >>
    /\ configured \in BOOLEAN
    /\ pc = [j \in Jobs |-> "none"]
    /\ folder = [j \in Jobs |-> "R"]
    /\ stack = [j \in Jobs |-> << >>]
    /\ files = [j \in Jobs |-> << >>]
    /\ requests = [j \in Jobs |-> << >>]
    /\ held = [j \in Jobs |-> {}]
    /\ http_pc = "idle"
    /\ http_job = 1
    /\ response = Reply("none", 0, << >>)

Next ==
    \/ \E folder_id \in RootIds : scan_folder(folder_id)
    \/ \E job_id \in Jobs : get_scan_status(job_id)
    \/ StatusMessage
    \/ StatusProgress
    \/ StatusReturn
    \/ \E job_id \in Jobs : download_results(job_id)
    \/ DownloadFile
    \/ \E code \in Codes : oauth2callback(code)
    \/ \E job_id \in Jobs : process_scan(job_id)

Spec == Init /\ [][Next]_vars

\* The writers alone: submissions, the OAuth callback and the background tasks.
TaskNext ==
    \/ \E folder_id \in RootIds : scan_folder(folder_id)
    \/ \E code \in Codes : oauth2callback(code)
    \/ \E job_id \in Jobs : process_scan(job_id)

TaskSpec == Init /\ [][TaskNext]_vars

\* One scan of any folder of the Drive: the only POST /api/scan of the run,
\* the callback, and the task.
WalkNext ==
    \/ \E folder_id \in FolderIds :
          (\A job_id \in Jobs : pc[job_id] = "none") /\ scan_folder(folder_id)
    \/ \E code \in Codes : oauth2callback(code)
    \/ \E job_id \in Jobs : process_scan(job_id)

WalkSpec == Init /\ [][WalkNext]_vars

\* The writers under fair scheduling: a worker thread that can take a step
\* of its task eventually takes it.
FairTaskSpec == TaskSpec /\ \A job_id \in Jobs : WF_vars(process_scan(job_id))

\* The whole program in a working directory that is also cleaned from outside.
EnvNext ==
    \/ Next
    \/ \E job_id \in Jobs : ExternalCleanup(job_id)

EnvSpec == Init /\ [][EnvNext]_vars

-----------------------------------------------------------------------------
(* Claims *)

Terminal == {"completed", "failed", "auth_required"}

Submitted(job_id) == pc[job_id] # "none"

StatusOf(job_id) == scan_jobs[job_id]["status"]

\* The event loop has answered a request on endpoint for job_id, and nothing
\* was submitted or asked since.
Answered(endpoint, job_id) ==
    http_pc = "idle" /\ response.endpoint = endpoint /\ http_job = job_id

\* C1: once scan_folder has returned a job_id, the job's record exists, and
\* a status request for that id made after the submission is never answered
\* 404.
C1_StatusKnownOnceSubmitted ==
    \A j \in Jobs :
        Submitted(j) =>
            /\ j \in DOMAIN scan_jobs
            /\ ~(Answered("status", j) /\ response.code = 404)

\* C2: a job dict whose status is completed, failed or auth_required is
\* never written again, and a status only ever changes from processing to
\* one of these three.
C2_TerminalExclusive ==
    [][\A j \in DOMAIN scan_jobs :
          /\ j \in DOMAIN scan_jobs'
          /\ StatusOf(j) \in Terminal => scan_jobs'[j] = scan_jobs[j]
          /\ scan_jobs'[j]["status"] # StatusOf(j) =>
                StatusOf(j) = "processing" /\ scan_jobs'[j]["status"] \in Terminal]_vars

\* C2 witness: a job sits in auth_required and the callback has since stored
\* a credential.
C2_Witness ==
    \E j \in DOMAIN scan_jobs :
        StatusOf(j) = "auth_required" /\ "current" \in DOMAIN credentials_store

\* C3: a failed job has no result file, and a download request for it is
\* answered 404, not 400.
C3_FailedDownloadNotFound ==
    [][\A j \in DOMAIN scan_jobs :
          StatusOf(j) = "failed" =>
              /\ csv_file(j) \notin DOMAIN fs
              /\ download_results(j) => response'.code = 404]_vars

\* C4: a result file exists for a job only while that job's status is
\* completed.
C4_ArtifactOnlyWhenCompleted ==
    \A j \in Jobs :
        csv_file(j) \in DOMAIN fs =>
            j \in DOMAIN scan_jobs /\ StatusOf(j) = "completed"

\* C5: the status, message and progress of one status response were held
\* together by the job's dict at some instant.
C5_StatusIsSnapshot ==
    (response.endpoint = "status" /\ response.code = 200
         /\ http_pc \in {"status_return", "idle"}) =>
        <<response.body["status"], response.body["message"], response.body["progress"]>>
            \in held[http_job]

\* C6: a download request is answered 404 for an unknown job, 400 for a job
\* that is not completed, 404 for a completed job whose file is missing and
\* with the file otherwise; it writes neither scan_jobs nor the files.
C6_DownloadByCase ==
    [][/\ \A j \in Jobs :
            download_results(j) =>
                /\ j \notin DOMAIN scan_jobs =>
                      http_pc' = "idle" /\ response'.code = 404
                /\ (j \in DOMAIN scan_jobs /\ StatusOf(j) # "completed") =>
                      http_pc' = "idle" /\ response'.code = 400
                /\ (j \in DOMAIN scan_jobs /\ StatusOf(j) = "completed") =>
                      http_pc' = "download_file"
                /\ UNCHANGED <<scan_jobs, fs>>
       /\ DownloadFile =>
            /\ http_job \in DOMAIN scan_jobs /\ StatusOf(http_job) = "completed"
            /\ http_pc' = "idle"
            /\ csv_file(http_job) \notin DOMAIN fs => response'.code = 404
            /\ csv_file(http_job) \in DOMAIN fs =>
                  response'.code = 200 /\ response'.body["path"] = csv_file(http_job)
            /\ UNCHANGED <<scan_jobs, fs>>]_vars

\* C6 witness: a completed job's file is gone and the download was answered 404.
C6_Witness ==
    \E j \in DOMAIN scan_jobs :
        /\ StatusOf(j) = "completed"
        /\ Answered("download", j)
        /\ response.code = 404

\* C7: under fair scheduling of the tasks, every scheduled job reaches
\* completed, failed or auth_required.
C7_EveryJobTerminates ==
    \A j \in Jobs :
        (pc[j] = "scheduled") ~> (j \in DOMAIN scan_jobs /\ StatusOf(j) \in Terminal)

\* C7 witness: a job has completed after a walk of several listing requests.
C7_Witness ==
    \E j \in DOMAIN scan_jobs :
        StatusOf(j) = "completed" /\ Len(requests[j]) > 1 /\ pc[j] = "returned"

\* C8: a job in auth_required carries a non-empty authorization_url, has
\* progress 0, has issued no listing request and has no result file.
C8_AuthRequired ==
    \A j \in DOMAIN scan_jobs :
        StatusOf(j) = "auth_required" =>
            /\ "authorization_url" \in DOMAIN scan_jobs[j]
            /\ scan_jobs[j]["authorization_url"] # << >>
            /\ scan_jobs[j]["progress"] = 0
            /\ requests[j] = << >>
            /\ csv_file(j) \notin DOMAIN fs

\* C8 witness: a task found no credential and its job is in auth_required.
C8_Witness ==
    \E j \in DOMAIN scan_jobs :
        StatusOf(j) = "auth_required" /\ pc[j] = "returned"

\* C9: for a completed job, file_count is the number of data rows of its
\* result file, and the rows are the entries list_files returned, in order.
C9_CountMatchesRows ==
    \A j \in DOMAIN scan_jobs :
        StatusOf(j) = "completed" =>
            /\ csv_file(j) \in DOMAIN fs
            /\ Head(fs[csv_file(j)]) = fieldnames
            /\ scan_jobs[j]["file_count"] = Len(DataRows(fs[csv_file(j)]))
            /\ DataRows(fs[csv_file(j)]) =
                   [i \in 1..Len(files[j]) |-> writerow(files[j][i])]

\* C9 witness: a completed job with several rows.
C9_Witness ==
    \E j \in DOMAIN scan_jobs :
        StatusOf(j) = "completed" /\ scan_jobs[j]["file_count"] > 1

\* C10: a status response that reports completed carries the entry count,
\* and a status response carries authorization_url exactly when the job is
\* in auth_required as the response is returned.
C10_StatusFields ==
    [][StatusReturn =>
          /\ response'.body["status"] = "completed" =>
                \/ "entry_count" \in DOMAIN response'.body
                \/ "file_count" \in DOMAIN response'.body
          /\ "authorization_url" \in DOMAIN response'.body
                <=> StatusOf(http_job) = "auth_required"]_vars

\* Everything that belongs to one job: the position and locals of its task,
\* its dict and its result file.
JobView(job_id) ==
    <<pc[job_id], folder[job_id], stack[job_id], files[job_id], requests[job_id],
      IF job_id \in DOMAIN scan_jobs THEN <<scan_jobs[job_id]>> ELSE << >>,
      IF csv_file(job_id) \in DOMAIN fs THEN <<fs[csv_file(job_id)]>> ELSE << >>>>

\* C11: every submission gets a job_id no earlier submission got, also for
\* the same folder_id, and a step of one job's task changes nothing that
\* belongs to another job: dict, result file, task position and locals.
C11_IndependentJobs ==
    [][/\ \A folder_id \in RootIds :
            scan_folder(folder_id) =>
                /\ pc[response'.body["job_id"]] = "none"
                /\ \A j \in Jobs :
                      j # response'.body["job_id"] => JobView(j)' = JobView(j)
       /\ \A j, k \in Jobs :
            (j # k /\ process_scan(k)) => JobView(j)' = JobView(j)]_vars

\* C11 witness: two jobs for the same folder have both completed, each with
\* its own result file.
C11_Witness ==
    \E j, k \in DOMAIN scan_jobs :
        /\ j # k
        /\ folder[j] = folder[k]
        /\ StatusOf(j) = "completed" /\ StatusOf(k) = "completed"
        /\ csv_file(j) \in DOMAIN fs /\ csv_file(k) \in DOMAIN fs
        /\ csv_file(j) # csv_file(k)

\* The Drive tree, read from DrivePages: the children of a folder in listing
\* order, the folder an item lies in, and the id an entry's link carries.
RECURSIVE Concat(_)
Concat(seqs) == IF seqs = << >> THEN << >> ELSE Head(seqs) \o Concat(Tail(seqs))

Children(folder_id) == Concat(DrivePages[folder_id])

ParentOf(id) ==
    CHOOSE f \in FolderIds : \E i \in 1..Len(Children(f)) : Children(f)[i].id = id

EntryId(entry) == entry.link[2]

\* C12: in a walk result, a direct child of the scanned folder has the empty
\* path, and every other entry has its parent folder's entry in the result
\* and its path is the parent's name, preceded by the parent's path and "/"
\* when that path is not empty; no path starts with "/".
C12_PathOfParent ==
    \A job_id \in Jobs :
        \A i \in 1..Len(files[job_id]) :
            LET entry == files[job_id][i]
                parent == ParentOf(EntryId(entry))
            IN  IF parent = folder[job_id]
                THEN entry.entire_folder_path = << >>
                ELSE /\ \E k \in 1..Len(files[job_id]) :
                          LET up == files[job_id][k]
                          IN  /\ EntryId(up) = parent
                              /\ up.file_type = FOLDER_MIME
                              /\ entry.entire_folder_path =
                                    IF up.entire_folder_path = << >>
                                    THEN up.name
                                    ELSE up.entire_folder_path \o <<"/">> \o up.name
                    /\ Head(entry.entire_folder_path) # "/"

\* C12 witness: a result with an entry three levels down (path a/b) next to
\* direct children of the scanned folder.
C12_Witness ==
    \E job_id \in Jobs :
        /\ pc[job_id] = "returned"
        /\ \E i, k \in 1..Len(files[job_id]) :
              /\ files[job_id][i].entire_folder_path = <<"a", "/", "b">>
              /\ files[job_id][k].entire_folder_path = << >>

\* The folders a scan of root reaches: root and the folders below it.
RECURSIVE Subfolders(_)
Subfolders(root) ==
    {root} \cup UNION {Subfolders(Children(root)[i].id) :
                          i \in {k \in 1..Len(Children(root)) :
                                    Children(root)[k].mimeType = FOLDER_MIME}}

\* list_files has returned to process_scan (line 318 is done).
WalkDone(job_id) ==
    \/ pc[job_id] = "export_message"
    \/ job_id \in DOMAIN scan_jobs /\ scan_jobs[job_id].progress >= 90

\* The page requests a folder of N pages takes: no token, then the token of
\* page 2, ..., page N.
PageRequests(folder_id) ==
    [i \in 1..Len(DrivePages[folder_id]) |->
        <<folder_id, IF i = 1 THEN None ELSE PageToken(i)>>]

RequestsFor(job_id, folder_id) ==
    SelectSeq(requests[job_id], LAMBDA r : r[1] = folder_id)

\* The ids of the entries of a result that lie directly in folder_id.
EmittedIn(job_id, folder_id) ==
    LET ids == [i \in 1..Len(files[job_id]) |-> EntryId(files[job_id][i])]
    IN  SelectSeq(ids, LAMBDA id : ParentOf(id) = folder_id)

\* C13: the requests of a walk for one folder are, at any moment, the first
\* requests of: no token, token of page 2, ..., token of page N; when the
\* walk has returned they are all N of them, and the result holds the
\* children of the folder, each once, in the order of the pages.
C13_PagesDrained ==
    \A job_id \in Jobs :
        \A folder_id \in FolderIds :
            LET asked == RequestsFor(job_id, folder_id)
                pages == PageRequests(folder_id)
            IN  /\ Len(asked) <= Len(pages)
                /\ asked = SubSeq(pages, 1, Len(asked))
                /\ (WalkDone(job_id) /\ folder_id \in Subfolders(folder[job_id])) =>
                      /\ asked = pages
                      /\ EmittedIn(job_id, folder_id) =
                            [i \in 1..Len(Children(folder_id)) |-> Children(folder_id)[i].id]

\* C13 witness: finished walks of a folder of three pages, one of them
\* empty, and of a folder of one page.
C13_Witness ==
    \E job_id \in Jobs :
        /\ WalkDone(job_id)
        /\ folder[job_id] = "R"
        /\ Len(RequestsFor(job_id, "R")) = 3
        /\ Len(RequestsFor(job_id, "A")) = 1
        /\ Len(EmittedIn(job_id, "R")) = 3

\* The ids of a folder's tree in pre-order: each child in listing order,
\* a sub-folder followed at once by its own tree.
RECURSIVE PreOrder(_)
PreOrder(folder_id) ==
    Concat([i \in 1..Len(Children(folder_id)) |->
               LET child == Children(folder_id)[i]
               IN  <<child.id>> \o (IF child.mimeType = FOLDER_MIME
                                    THEN PreOrder(child.id)
                                    ELSE << >>)])

\* C14: the result of a walk lists the tree of the scanned folder in
\* pre-order, siblings in listing order with the pages concatenated; the
\* scan of S (two files, then a sub-folder "sub" with one file) gives four
\* entries with the paths "", "", "", "sub".
C14_PreOrder ==
    \A job_id \in Jobs :
        WalkDone(job_id) =>
            /\ [i \in 1..Len(files[job_id]) |-> EntryId(files[job_id][i])]
                  = PreOrder(folder[job_id])
            /\ folder[job_id] = "S" =>
                  [i \in 1..Len(files[job_id]) |-> files[job_id][i].entire_folder_path]
                      = << << >>, << >>, << >>, <<"sub">> >>

\* C14 witness: the finished walk of Q, whose sub-folder U lies between two
\* files of the first page and has a sub-folder of its own.
C14_Witness ==
    \E job_id \in Jobs :
        /\ WalkDone(job_id)
        /\ folder[job_id] = "Q"
        /\ Len(files[job_id]) = 6

\* C15: in the listing requests of one walk, no request for a folder comes
\* after a request for one of its child folders (a folder is drained before
\* the walk descends).
C15_DrainedBeforeDescent ==
    \A job_id \in Jobs :
        \A i, k \in 1..Len(requests[job_id]) :
            LET child == requests[job_id][i][1]
                parent == requests[job_id][k][1]
            IN  (i < k /\ child # folder[job_id]) => ParentOf(child) # parent

\* A step in which job_id issues a listing request and the request is
\* answered: the walk goes on from the response.
ListingAnswered(job_id) ==
    LET st == stack[job_id]
        top == st[Len(st)]
    IN  \E r \in {RunLocal(Receive(st, DriveList(top.folder_id, top.page_token)))} :
            /\ stack'[job_id] = r.stack
            /\ files'[job_id] = r.results
            /\ pc'[job_id] = IF r.done THEN "export_message" ELSE "list_files"
            /\ scan_jobs'[job_id] = scan_jobs[job_id]

\* A step in which the walk of job_id is given up: the task has returned,
\* the job is failed with a message, nothing is returned or written, and the
\* answer to the POST is what it was.
WalkAborted(job_id) ==
    /\ pc'[job_id] = "returned"
    /\ scan_jobs'[job_id].status = "failed"
    /\ Head(scan_jobs'[job_id].message) = "Error: "
    /\ Len(scan_jobs'[job_id].message) > 1
    /\ files'[job_id] = << >>
    /\ csv_file(job_id) \notin DOMAIN fs'
    /\ response' = response

\* C16: a listing request of a walk is either answered, and the walk goes
\* on from the response, or it fails, and the walk is given up in that step
\* (WalkAborted); a task that has returned issues no listing request,
\* returns no entries and writes no file.
C16_ListingFailureAborts ==
    [][\A job_id \in Jobs :
          /\ requests'[job_id] # requests[job_id] =>
                (ListingAnswered(job_id) \/ WalkAborted(job_id))
          /\ pc[job_id] = "returned" =>
                /\ pc'[job_id] = "returned"
                /\ requests'[job_id] = requests[job_id]
                /\ files'[job_id] = files[job_id]
                /\ (csv_file(job_id) \in DOMAIN fs') = (csv_file(job_id) \in DOMAIN fs)]_vars

\* C16 witness: a job that failed at its third listing request.
C16_Witness ==
    \E job_id \in DOMAIN scan_jobs :
        /\ pc[job_id] = "returned"
        /\ scan_jobs[job_id].status = "failed"
        /\ scan_jobs[job_id].message = <<"Error: ", "listing request failed">>
        /\ Len(requests[job_id]) = 3
        /\ files[job_id] = << >>
        /\ csv_file(job_id) \notin DOMAIN fs

\* C17: the progress of a job starts at 0, never goes down, stays within
\* 0..100, and is 0, 10 or 90 while the status is processing.
C17_ProgressMonotone ==
    [][\A job_id \in DOMAIN scan_jobs' :
          LET after == scan_jobs'[job_id]
          IN  /\ after.progress \in 0..100
              /\ IF job_id \in DOMAIN scan_jobs
                 THEN after.progress >= scan_jobs[job_id].progress
                 ELSE after.progress = 0
              /\ after.status = "processing" => after.progress \in {0, 10, 90}]_vars

\* C17 witness: a job in processing at 90 whose dict has held 0 and 10
\* before.
C17_Witness ==
    \E job_id \in DOMAIN scan_jobs :
        /\ scan_jobs[job_id].status = "processing"
        /\ scan_jobs[job_id].progress = 90
        /\ {0, 10} \subseteq {h[3] : h \in held[job_id]}

\* C18: progress is 100 exactly when the status is completed; a job in
\* auth_required has progress 0; a job that becomes failed keeps the
\* progress it had in the step before, which is 0, 10 or 90.
C18_ProgressByStatus ==
    [][\A job_id \in DOMAIN scan_jobs' :
          LET after == scan_jobs'[job_id]
          IN  /\ (after.progress = 100) <=> (after.status = "completed")
              /\ after.status = "auth_required" => after.progress = 0
              /\ after.status = "failed" =>
                    /\ after.progress \in {0, 10, 90}
                    /\ job_id \in DOMAIN scan_jobs
                    /\ after.progress = scan_jobs[job_id].progress]_vars

\* C18 witness: one job completed at 100 next to a job that failed during
\* the export at 90.
C18_Witness ==
    \E j, k \in DOMAIN scan_jobs :
        /\ scan_jobs[j].status = "completed" /\ scan_jobs[j].progress = 100
        /\ scan_jobs[k].status = "failed" /\ scan_jobs[k].progress = 90

HasCredential == "current" \in DOMAIN credentials_store

AuthRequired(job_id) ==
    job_id \in DOMAIN scan_jobs /\ scan_jobs[job_id].status = "auth_required"

\* C19: a stored credential stays stored; a job whose task has not started
\* when a credential is stored is never in auth_required afterwards; a job
\* in auth_required stays there.
C19_CredentialSetOnly ==
    /\ [][/\ HasCredential => HasCredential'
          /\ \A job_id \in Jobs : AuthRequired(job_id) => AuthRequired(job_id)']_vars
    /\ \A job_id \in Jobs :
          []((HasCredential /\ pc[job_id] \in {"none", "scheduled"})
                => [](~AuthRequired(job_id)))

\* C19 witness: with a credential stored, one job is in auth_required and a
\* job that started later has gone past the credential test.
C19_Witness ==
    /\ HasCredential
    /\ \E j, k \in DOMAIN scan_jobs :
          /\ AuthRequired(j)
          /\ scan_jobs[k].status \in {"completed", "failed"}
          /\ scan_jobs[k].progress >= 10

=============================================================================
